---- MODULE Spec2Model ----
(***************************************************************************)
(* Screenplay analyser: line classification heuristics, scene             *)
(* segmentation and the speaker-tracking scans built on them.             *)
(*                                                                         *)
(* Text is a sequence of one-character strings; a script is one such      *)
(* sequence in which "\n" separates the lines.                            *)
(***************************************************************************)
EXTENDS Integers, Sequences, FiniteSets, TLC

VARIABLES
    script,   \* the text handed to the entry point
    fn,       \* entry point being executed ("idle" before the first call)
    pc,       \* position inside the entry point
    loc,      \* the local variables of the running call, by their source names
    report,   \* what the last finished call returned
    hist      \* the first finished call of the session: entry point, text, result

vars == <<script, fn, pc, loc, report, hist>>

\* Python's None; no text equals it (texts hold one-character strings only)
None == <<"None">>

----------------------------------------------------------------------------
(* Python str primitives on sequences of characters *)

LowerChars == <<"a","b","c","d","e","f","g","h","i","j","k","l","m",
                "n","o","p","q","r","s","t","u","v","w","x","y","z">>
UpperChars == <<"A","B","C","D","E","F","G","H","I","J","K","L","M",
                "N","O","P","Q","R","S","T","U","V","W","X","Y","Z">>

IsLowerChar(c) == \E k \in 1..26 : LowerChars[k] = c
IsUpperChar(c) == \E k \in 1..26 : UpperChars[k] = c
IsSpace(c) == c \in {" ", "\t", "\n"}

UpperChar(c) ==
    IF IsLowerChar(c)
    THEN UpperChars[CHOOSE k \in 1..26 : LowerChars[k] = c]
    ELSE c

\* str.upper()
Upper(s) == [k \in 1..Len(s) |-> UpperChar(s[k])]

\* str.strip()
Strip(s) ==
    LET idx == {k \in 1..Len(s) : ~IsSpace(s[k])}
    IN IF idx = {} THEN <<>>
       ELSE LET lo == CHOOSE k \in idx : \A m \in idx : k <= m
                hi == CHOOSE k \in idx : \A m \in idx : k >= m
            IN SubSeq(s, lo, hi)

\* str.startswith(p) / str.endswith(p) for one pattern
StartsWith(s, p) == Len(s) >= Len(p) /\ SubSeq(s, 1, Len(p)) = p
EndsWith(s, p) == Len(s) >= Len(p) /\ SubSeq(s, Len(s) - Len(p) + 1, Len(s)) = p

\* str.isupper(): at least one cased character and no lower-case one
IsUpper(s) ==
    /\ \E k \in 1..Len(s) : IsUpperChar(s[k])
    /\ \A k \in 1..Len(s) : ~IsLowerChar(s[k])

\* len(s.split()): number of maximal runs of non-whitespace characters
WordCount(s) ==
    Cardinality({k \in 1..Len(s) :
                    ~IsSpace(s[k]) /\ (k = 1 \/ IsSpace(s[k-1]))})

\* s.split('\n')
RECURSIVE SplitLines(_)
SplitLines(s) ==
    LET nl == {k \in 1..Len(s) : s[k] = "\n"}
    IN IF nl = {} THEN <<s>>
       ELSE LET k == CHOOSE x \in nl : \A y \in nl : x <= y
            IN <<SubSeq(s, 1, k - 1)>> \o SplitLines(SubSeq(s, k + 1, Len(s)))

\* '\n'.join(ls)
RECURSIVE JoinLines(_)
JoinLines(ls) ==
    IF Len(ls) = 0 THEN <<>>
    ELSE IF Len(ls) = 1 THEN ls[1]
    ELSE ls[1] \o <<"\n">> \o JoinLines(Tail(ls))

----------------------------------------------------------------------------
(* scene_validator.py: the six heuristics *)

HeadingPrefixes == {<<"I","N","T",".">>, <<"E","X","T",".">>}
TransitionSuffixes == {<<"T","O",":">>, <<"O","U","T",":">>, <<"I","N",":">>}

is_scene_heading(line) ==
    \E p \in HeadingPrefixes : StartsWith(Upper(Strip(line)), p)

is_transition(line) ==
    \E p \in TransitionSuffixes : EndsWith(Upper(Strip(line)), p)

is_emotion(line) ==
    StartsWith(Strip(line), <<"(">>) /\ EndsWith(Strip(line), <<")">>)

NameMaxLen == 40
NameMaxWords == 4

is_character_name(line) ==
    LET l == Strip(line)
    IN /\ IsUpper(l)
       /\ Len(l) <= NameMaxLen
       /\ 1 <= WordCount(l) /\ WordCount(l) <= NameMaxWords
       /\ ~is_scene_heading(l)
       /\ ~is_transition(l)
       /\ ~is_emotion(l)

\* is_action without the test that keeps questions and exclamations out
is_action_any_ending(line) ==
    LET l == Strip(line)
    IN /\ l # <<>>
       /\ ~is_scene_heading(l)
       /\ ~is_transition(l)
       /\ ~is_character_name(l)
       /\ ~is_emotion(l)

is_action(line) ==
    LET l == Strip(line)
    IN /\ l # <<>>
       /\ ~is_scene_heading(l)
       /\ ~is_transition(l)
       /\ ~is_character_name(l)
       /\ ~is_emotion(l)
       /\ ~(EndsWith(l, <<"?">>) \/ EndsWith(l, <<"!">>))

DialogueMinWords == 3

is_dialogue_from_three_words(line) ==
    LET l == Strip(line)
    IN /\ l # <<>>
       /\ ~is_scene_heading(l)
       /\ ~is_transition(l)
       /\ ~is_character_name(l)
       /\ ~is_emotion(l)
       /\ \/ EndsWith(l, <<".">>) \/ EndsWith(l, <<"?">>) \/ EndsWith(l, <<"!">>)
          \/ WordCount(l) >= DialogueMinWords

is_dialogue(line) ==
    LET l == Strip(line)
    IN /\ l # <<>>
       /\ ~is_scene_heading(l)
       /\ ~is_transition(l)
       /\ ~is_character_name(l)
       /\ ~is_emotion(l)
       /\ \/ EndsWith(l, <<".">>) \/ EndsWith(l, <<"?">>) \/ EndsWith(l, <<"!">>)
          \/ WordCount(l) > DialogueMinWords

----------------------------------------------------------------------------
(* dict / defaultdict(int): a sequence of [k, v] entries in insertion order *)

Keys(d) == {d[n].k : n \in 1..Len(d)}

Get(d, key) ==
    IF key \in Keys(d)
    THEN d[CHOOSE n \in 1..Len(d) : d[n].k = key].v
    ELSE 0

\* d[key] = val
Put(d, key, val) ==
    IF key \in Keys(d)
    THEN [n \in 1..Len(d) |-> IF d[n].k = key THEN [k |-> key, v |-> val] ELSE d[n]]
    ELSE Append(d, [k |-> key, v |-> val])

\* d[key] += n on a defaultdict(int)
Inc(d, key, n) == Put(d, key, Get(d, key) + n)

\* sum(d.values())
RECURSIVE SumValues(_)
SumValues(d) == IF d = <<>> THEN 0 ELSE d[1].v + SumValues(Tail(d))

\* truth value of a str-or-None
Truthy(x) == x # None /\ x # <<>>

\* the outcome of a call that ended in an uncaught ZeroDivisionError
ZeroDivisionError == [raised |-> "ZeroDivisionError"]

\* the outcome of code that divides by each of the divisors and then returns
\* result
Dividing(divisors, result) ==
    IF 0 \in divisors THEN ZeroDivisionError ELSE result

\* the sentinel key "UNKNOWN"
UNKNOWN == <<"U","N","K","N","O","W","N">>

\* script.strip().split('\n')
ScriptLines(text) == SplitLines(Strip(text))

----------------------------------------------------------------------------
(* Inputs *)

MaxLines == 3
MaxCoreLines == 5
MaxScenes == 2

\* one representative physical line per combination of heuristics
LinePool ==
    { <<"I","N","T",".">>,                 \* scene heading
      <<"e","x","t",".","T","O",":">>,     \* heading that also ends like a transition
      <<"T","O",":">>,                     \* transition
      <<"(","a",")">>,                     \* parenthetical
      <<"A","L">>,                         \* character cue
      <<"U","N","K","N","O","W","N">>,     \* a character cue spelled like the sentinel
      <<>>,                                \* blank
      <<" ">>,                             \* whitespace only
      <<"H","i",".">>,                     \* declarative sentence: action and dialogue
      <<"H","i","?">>,                     \* question: dialogue only
      <<"g","o">> }                        \* short unpunctuated line: action only

\* the lines that drive segmentation and speaker tracking, for longer texts
CorePool ==
    { <<"I","N","T",".">>, <<"A","L">>, <<>>, <<"H","i",".">> }

RECURSIVE LineSeqs(_, _)
LineSeqs(pool, n) ==
    IF n = 0 THEN {<<>>}
    ELSE LET shorter == LineSeqs(pool, n - 1)
         IN shorter \cup {Append(ls, l) : ls \in {x \in shorter : Len(x) = n - 1},
                                          l \in pool}

\* every text of at most n lines over the pool
Scripts(pool, n) == {JoinLines(ls) : ls \in LineSeqs(pool, n)}

\* texts of k scenes, each a heading, a blank line, the cue c and one dialogue
\* line; consecutive scenes are separated by nothing or by a blank line and a
\* transition
ShapeHeadings == { <<"I","N","T",".">>, <<"E","X","T","."," ","B">> }
ShapeDialogue == { <<"H","i",".">>, <<"H","i","?">> }
ShapeCues == { <<"A","L">>, <<"S","A","R","A","H">> }
ShapeSeparators == { <<>>, << <<>>, <<"C","U","T"," ","T","O",":">> >> }

RECURSIVE ShapeLineSeqs(_, _)
ShapeLineSeqs(c, k) ==
    LET block == {<<h, <<>>, c, d>> : h \in ShapeHeadings, d \in ShapeDialogue}
    IN IF k = 1 THEN block
       ELSE {ls \o sep \o b : ls \in ShapeLineSeqs(c, k - 1),
                               sep \in ShapeSeparators, b \in block}

ShapeScripts(c, k) == {JoinLines(ls) : ls \in ShapeLineSeqs(c, k)}

AllShapeScripts ==
    UNION {ShapeScripts(c, k) : c \in ShapeCues, k \in 1..MaxScenes}

\* "INT. ROOM - DAY\n\nSARAH\nHello there.\n\nCUT TO:\nEXT. PARK - DAY\n\nSARAH\nStill here."
TwoSceneExample ==
    <<"I","N","T","."," ","R","O","O","M"," ","-"," ","D","A","Y","\n",
      "\n","S","A","R","A","H","\n","H","e","l","l","o"," ","t","h","e",
      "r","e",".","\n","\n","C","U","T"," ","T","O",":","\n","E","X","T",
      "."," ","P","A","R","K"," ","-"," ","D","A","Y","\n","\n","S","A",
      "R","A","H","\n","S","t","i","l","l"," ","h","e","r","e",".">>

\* "SARAH\n(angrily)\nI can't believe this."
EmotionExample ==
    <<"S","A","R","A","H","\n","(","a","n","g","r","i","l","y",")","\n",
      "I"," ","c","a","n","'","t"," ","b","e","l","i","e","v","e"," ","t",
      "h","i","s",".">>

\* "AL\nHi.\nBO\nHi.\nHi.": the second speaker has more lines than the first
RankingExample ==
    <<"A","L","\n","H","i",".","\n","B","O","\n","H","i",".","\n","H","i",".">>

ExampleScripts == {TwoSceneExample, EmotionExample, RankingExample}

ScriptSpace ==
    Scripts(LinePool, MaxLines) \cup Scripts(CorePool, MaxCoreLines)
        \cup AllShapeScripts \cup ExampleScripts

----------------------------------------------------------------------------
(* scene_validator.py: character_tracking *)

character_tracking_init(text) ==
    [lines |-> ScriptLines(text), i |-> 0,
     current_character |-> None, character_lines |-> <<>>]

\* one iteration of the for loop
character_tracking_body(l) ==
    LET line == Strip(l.lines[l.i + 1])
        next == [l EXCEPT !.i = l.i + 1]
    IN IF is_character_name(line)
       THEN [next EXCEPT !.current_character = line]
       ELSE IF is_dialogue(line)
       THEN IF Truthy(l.current_character)
            THEN [next EXCEPT !.character_lines = Inc(@, l.current_character, 1)]
            ELSE [next EXCEPT !.character_lines = Inc(@, UNKNOWN, 1)]
       ELSE IF line = <<>>
       THEN [next EXCEPT !.current_character = None]
       ELSE next

\* the divisors of (count / total_lines) * 100 if total_lines else 0, once
\* per character
character_tracking_divisors(l) ==
    LET total_lines == SumValues(l.character_lines)
    IN {total_lines : n \in {m \in 1..Len(l.character_lines) : total_lines # 0}}

character_tracking_report(l) ==
    Dividing(character_tracking_divisors(l),
        [Characters |-> l.character_lines,
         total_lines |-> SumValues(l.character_lines),
         CharacterReport |->
            IF UNKNOWN \in Keys(l.character_lines)
            THEN "Some dialogue has no character assigned"
            ELSE "No character assignment issues"])

----------------------------------------------------------------------------
(* scene_validator.py: scene_structure_validator *)

scene_structure_validator_init(text) ==
    [lines |-> ScriptLines(text), i |-> 0, scene_count |-> 0,
     valid_headings |-> <<>>, header_issues |-> <<>>, scene_issues |-> <<>>,
     character_lines |-> <<>>, action_present |-> FALSE]

\* the dialogue branch: who owns the dialogue line at 0-based index l.i
scene_structure_attribute(l, next) ==
    IF l.i >= 1 /\ is_character_name(l.lines[l.i])
    THEN [next EXCEPT !.character_lines = Inc(@, Upper(Strip(l.lines[l.i])), 1)]
    ELSE IF l.i >= 2 /\ is_emotion(l.lines[l.i]) /\ is_character_name(l.lines[l.i - 1])
    THEN [next EXCEPT !.character_lines = Inc(@, Upper(Strip(l.lines[l.i - 1])), 1)]
    ELSE [next EXCEPT
            !.character_lines = Inc(@, UNKNOWN, 1),
            !.scene_issues = Append(@,
                [n |-> l.i + 1, msg |-> "dialogue not preceded by character name"])]

\* one iteration of the for loop (the line at 0-based index l.i)
scene_structure_validator_body_warning_every_transition(l) ==
    LET line == Strip(l.lines[l.i + 1])
        next == [l EXCEPT !.i = l.i + 1]
    IN IF line = <<>> THEN next
       ELSE IF is_scene_heading(line)
       THEN [next EXCEPT !.scene_count = @ + 1,
                         !.valid_headings = Append(@, line)]
       ELSE IF is_transition(line)
       THEN [next EXCEPT !.header_issues = Append(@,
                    [n |-> l.i + 1, msg |-> "transition not followed by a scene heading"])]
       ELSE IF is_action(line)
       THEN [next EXCEPT !.action_present = TRUE]
       ELSE IF is_dialogue(line)
       THEN scene_structure_attribute(l, next)
       ELSE next

scene_structure_validator_body(l) ==
    LET line == Strip(l.lines[l.i + 1])
        next == [l EXCEPT !.i = l.i + 1]
    IN IF line = <<>> THEN next
       ELSE IF is_scene_heading(line)
       THEN [next EXCEPT !.scene_count = @ + 1,
                         !.valid_headings = Append(@, line)]
       ELSE IF is_transition(line)
       THEN IF l.i + 1 >= Len(l.lines) \/ ~is_scene_heading(l.lines[l.i + 2])
            THEN [next EXCEPT !.header_issues = Append(@,
                    [n |-> l.i + 1, msg |-> "transition not followed by a scene heading"])]
            ELSE next
       ELSE IF is_action(line)
       THEN [next EXCEPT !.action_present = TRUE]
       ELSE IF is_dialogue(line)
       THEN scene_structure_attribute(l, next)
       ELSE next

scene_structure_validator_report(l) ==
    [TotalScenes |-> l.scene_count,
     ValidHeadings |-> IF l.valid_headings # <<>> THEN l.valid_headings
                       ELSE << <<"No valid scene headings found.">> >>,
     HeaderReports |-> IF l.header_issues # <<>> THEN l.header_issues
                       ELSE <<[n |-> 0, msg |-> "No header errors"]>>,
     SceneReports |-> IF l.scene_issues # <<>> THEN l.scene_issues
                      ELSE <<[n |-> 0, msg |-> "No scene structure issues"]>>,
     NoActionLines |-> ~l.action_present]

----------------------------------------------------------------------------
(* character_development.py: character_development_validator *)

IsDigitChar(c) == c \in {"0","1","2","3","4","5","6","7","8","9"}
IsWordChar(c) == IsUpperChar(c) \/ IsLowerChar(c) \/ IsDigitChar(c) \/ c = "_"

\* \b between s[p-1] and s[p]
WordBoundary(s, p) ==
    LET before == p >= 2 /\ p - 1 <= Len(s) /\ IsWordChar(s[p - 1])
        after == p >= 1 /\ p <= Len(s) /\ IsWordChar(s[p])
    IN before # after

NameRunMax == 39

\* length of the match of \b[A-Z][A-Z ]{1,39}\b starting at p, 0 when none
NameMatchLen(s, p) ==
    IF ~(IsUpperChar(s[p]) /\ WordBoundary(s, p)) THEN 0
    ELSE LET ok == {n \in 1..NameRunMax :
                      /\ p + n <= Len(s)
                      /\ \A m \in 1..n : IsUpperChar(s[p + m]) \/ s[p + m] = " "
                      /\ WordBoundary(s, p + n + 1)}
         IN IF ok = {} THEN 0
            ELSE 1 + (CHOOSE n \in ok : \A m \in ok : n >= m)

\* re.findall(r'\b[A-Z][A-Z ]{1,39}\b', s), scanning from position p
RECURSIVE FindNames(_, _)
FindNames(s, p) ==
    IF p > Len(s) THEN <<>>
    ELSE LET n == NameMatchLen(s, p)
         IN IF n > 0
            THEN <<SubSeq(s, p, p + n - 1)>> \o FindNames(s, p + n)
            ELSE FindNames(s, p + 1)

\* for name in possible_names: introduce the ones not yet introduced
RECURSIVE IntroduceAll(_, _, _)
IntroduceAll(introduced, names, lineno) ==
    IF names = <<>> THEN introduced
    ELSE LET name == Strip(names[1])
         IN IntroduceAll(IF name \in Keys(introduced) THEN introduced
                         ELSE Put(introduced, name, lineno),
                         Tail(names), lineno)

\* an update that replaces the set by the new member instead of adding to it
AddToSet_replacing(d, key, x) == Put(d, key, {x})

\* scene_map[key].add(scene) on a defaultdict(set)
AddToSet(d, key, x) ==
    IF key \in Keys(d)
    THEN [n \in 1..Len(d) |->
            IF d[n].k = key THEN [k |-> key, v |-> d[n].v \cup {x}] ELSE d[n]]
    ELSE Append(d, [k |-> key, v |-> {x}])

GetSet(d, key) ==
    IF key \in Keys(d) THEN d[CHOOSE n \in 1..Len(d) : d[n].k = key].v ELSE {}

character_development_validator_init(text) ==
    [lines |-> ScriptLines(text), i |-> 0, character_speakers |-> <<>>,
     introduced |-> <<>>, current_character |-> None, scenes |-> 0,
     scene_map |-> <<>>]

\* the loop body with a speaker context that every scene heading clears
character_development_validator_body_heading_clears(l) ==
    LET line == Strip(l.lines[l.i + 1])
        next == [l EXCEPT !.i = l.i + 1]
    IN IF is_scene_heading(line)
       THEN [next EXCEPT !.scenes = @ + 1, !.current_character = None]
       ELSE IF is_character_name(line)
       THEN [next EXCEPT
               !.current_character = line,
               !.introduced = IF line \in Keys(@) THEN @ ELSE Put(@, line, l.i + 1)]
       ELSE IF is_dialogue(line) /\ Truthy(l.current_character)
       THEN [next EXCEPT
               !.character_speakers = Inc(@, l.current_character, 1),
               !.scene_map = AddToSet(@, l.current_character, l.scenes)]
       ELSE IF is_action(line)
       THEN [next EXCEPT
               !.introduced = IntroduceAll(@, FindNames(line, 1), l.i + 1)]
       ELSE IF line = <<>>
       THEN [next EXCEPT !.current_character = None]
       ELSE next

\* one iteration of the for loop
character_development_validator_body(l) ==
    LET line == Strip(l.lines[l.i + 1])
        next == [l EXCEPT !.i = l.i + 1]
    IN IF is_scene_heading(line)
       THEN [next EXCEPT !.scenes = @ + 1]
       ELSE IF is_character_name(line)
       THEN [next EXCEPT
               !.current_character = line,
               !.introduced = IF line \in Keys(@) THEN @ ELSE Put(@, line, l.i + 1)]
       ELSE IF is_dialogue(line) /\ Truthy(l.current_character)
       THEN [next EXCEPT
               !.character_speakers = Inc(@, l.current_character, 1),
               !.scene_map = AddToSet(@, l.current_character, l.scenes)]
       ELSE IF is_action(line)
       THEN [next EXCEPT
               !.introduced = IntroduceAll(@, FindNames(line, 1), l.i + 1)]
       ELSE IF line = <<>>
       THEN [next EXCEPT !.current_character = None]
       ELSE next

character_development_validator_report(l) ==
    [Introduced |->
        [n \in 1..Len(l.introduced) |->
            [char |-> l.introduced[n].k, line |-> l.introduced[n].v,
             how |-> IF l.introduced[n].k \notin Keys(l.character_speakers)
                     THEN "Introduced via action only"
                     ELSE "Introduced via dialogue only"]],
     Speaking |->
        [n \in 1..Len(l.character_speakers) |->
            LET char == l.character_speakers[n].k
                count == l.character_speakers[n].v
            IN IF count = 1
               THEN [char |-> char, text |-> "Only speaks once"]
               ELSE [char |-> char, text |-> "Speaks times across scenes",
                     times |-> count,
                     scenes |-> Cardinality(GetSet(l.scene_map, char))]],
     Warnings |->
        {l.introduced[n].k : n \in {m \in 1..Len(l.introduced) :
            l.introduced[m].k \notin Keys(l.character_speakers)}}]

----------------------------------------------------------------------------
(* speaking_time.py: character_speaking_stats *)

character_speaking_stats_init(text) ==
    [lines |-> ScriptLines(text), i |-> 0, current_character |-> None,
     character_word_count |-> <<>>, character_line_count |-> <<>>,
     total_lines |-> 0]

\* the loop body without the UNKNOWN fallback: dialogue scanned with no
\* speaker is counted in the total only
character_speaking_stats_body_dropping_unassigned(l) ==
    LET line == l.lines[l.i + 1]
        next == [l EXCEPT !.i = l.i + 1]
        words == WordCount(line)
    IN IF is_character_name(line)
       THEN [next EXCEPT !.current_character = Upper(Strip(line))]
       ELSE IF is_dialogue(line)
       THEN IF Truthy(l.current_character)
            THEN [next EXCEPT
                    !.total_lines = @ + 1,
                    !.character_word_count = Inc(@, l.current_character, words),
                    !.character_line_count = Inc(@, l.current_character, 1)]
            ELSE [next EXCEPT !.total_lines = @ + 1]
       ELSE next

\* one iteration of the for loop
character_speaking_stats_body(l) ==
    LET line == l.lines[l.i + 1]
        next == [l EXCEPT !.i = l.i + 1]
        words == WordCount(line)
        who == IF Truthy(l.current_character) THEN l.current_character ELSE UNKNOWN
    IN IF is_character_name(line)
       THEN [next EXCEPT !.current_character = Upper(Strip(line))]
       ELSE IF is_dialogue(line)
       THEN [next EXCEPT
               !.total_lines = @ + 1,
               !.character_word_count = Inc(@, who, words),
               !.character_line_count = Inc(@, who, 1)]
       ELSE next

\* int(words / 2.5)
SpeakingSeconds(words) == (2 * words) \div 5

character_speaking_stats_report(l) ==
    [TotalDialogueLines |-> l.total_lines,
     Characters |->
        [n \in 1..Len(l.character_word_count) |->
            LET character == l.character_word_count[n].k
            IN [character |-> character,
                Lines |-> Get(l.character_line_count, character),
                Words |-> l.character_word_count[n].v,
                Seconds |-> SpeakingSeconds(l.character_word_count[n].v)]],
     NoDialogue |-> IF Len(l.character_line_count) = 0
                    THEN <<"No dialogue lines found">> ELSE <<>>]

----------------------------------------------------------------------------
(* The scene segmentation loop of pacing_and_distribution.py and         *)
(* media_readability.py (the same code in both)                           *)

segment_init(text) ==
    [lines |-> ScriptLines(text), i |-> 0, scenes |-> <<>>,
     current_scene |-> [heading |-> None, content |-> <<>>],
     scene_counter |-> 0]

\* one iteration of "for line in lines"
segment_body(l) ==
    LET line == l.lines[l.i + 1]
        next == [l EXCEPT !.i = l.i + 1]
    IN IF is_scene_heading(line)
       THEN [next EXCEPT
               !.scenes = IF Truthy(l.current_scene.heading)
                          THEN Append(@, l.current_scene) ELSE @,
               !.scene_counter = @ + 1,
               !.current_scene = [heading |-> Strip(line), content |-> <<>>,
                                  index |-> l.scene_counter + 1]]
       ELSE [next EXCEPT !.current_scene.content = Append(@, line)]

\* the loop's result without the statement that closes the open scene
segment_close_never(l) == l.scenes

\* after the loop: the open scene is closed if it has a heading
segment_close(l) ==
    IF Truthy(l.current_scene.heading) THEN Append(l.scenes, l.current_scene)
    ELSE l.scenes

----------------------------------------------------------------------------
(* pacing_and_distribution.py: scene_pacing_and_distribution *)

\* the locals of the analysis loops, added once the scenes are known
pacing_analysis_init(l) ==
    [lines |-> l.lines, i |-> l.i, scenes |-> segment_close(l),
     current_scene |-> l.current_scene, scene_counter |-> l.scene_counter,
     s |-> 0, j |-> 0, dialogue_count |-> 0, action_count |-> 0,
     current_character |-> None, scene_reports |-> <<>>,
     character_lines |-> <<>>, total_dialogue_lines |-> 0]

\* top of "for scene in scenes"
pacing_scene_begin(l) ==
    [l EXCEPT !.j = 0, !.dialogue_count = 0, !.action_count = 0,
              !.current_character = None]

\* one iteration of "for line in scene['content']"
pacing_content_body(l) ==
    LET line == l.scenes[l.s + 1].content[l.j + 1]
        next == [l EXCEPT !.j = l.j + 1]
    IN IF is_character_name(line)
       THEN [next EXCEPT !.current_character = Upper(Strip(line))]
       ELSE IF is_dialogue(line)
       THEN [next EXCEPT
               !.dialogue_count = @ + 1,
               !.total_dialogue_lines = @ + 1,
               !.character_lines =
                    IF Truthy(l.current_character)
                    THEN Inc(@, l.current_character, 1)
                    ELSE Inc(@, UNKNOWN, 1)]
       ELSE IF is_action(line)
       THEN [next EXCEPT !.action_count = @ + 1]
       ELSE next

pacing_balance(dialogue_count, action_count) ==
    IF dialogue_count > action_count * 2 THEN "Dialogue-heavy"
    ELSE IF action_count > dialogue_count * 2 THEN "Action-heavy"
    ELSE "Balanced"

\* bottom of "for scene in scenes": the scene's report is appended
pacing_scene_end(l) ==
    [l EXCEPT
        !.scene_reports = Append(@,
            [index |-> l.scenes[l.s + 1].index,
             heading |-> l.scenes[l.s + 1].heading,
             dialogue |-> l.dialogue_count,
             action |-> l.action_count,
             balance |-> pacing_balance(l.dialogue_count, l.action_count),
             quantity |-> l.dialogue_count + l.action_count]),
        !.s = l.s + 1]

Abs(x) == IF x < 0 THEN -x ELSE x

PacingGap == 4

\* ill_paced computed over every pair of scenes instead of neighbours
pacing_ill_paced_any_pair(l) ==
    /\ l.scene_counter > 1
    /\ \E n, m \in 1..Len(l.scene_reports) :
          Abs(l.scene_reports[n].quantity - l.scene_reports[m].quantity)
             >= PacingGap

\* ill_paced after the report loop of the else branch
pacing_ill_paced(l) ==
    /\ l.scene_counter > 1
    /\ \E n \in 2..Len(l.scene_reports) :
          Abs(l.scene_reports[n].quantity - l.scene_reports[n - 1].quantity)
             >= PacingGap

\* the divisors of (count / total_dialogue_lines) * 100, once per character
\* in the branch taken when total_dialogue_lines is not 0
pacing_divisors(l) ==
    IF l.total_dialogue_lines = 0 THEN {}
    ELSE {l.total_dialogue_lines : n \in 1..Len(l.character_lines)}

scene_pacing_and_distribution_report(l) ==
    Dividing(pacing_divisors(l),
        [Scenes |-> IF l.scene_counter = 0 THEN <<[msg |-> "No scenes detected"]>>
                    ELSE IF l.scene_counter = 1
                    THEN <<[msg |-> "Only one scene detected"]>> \o l.scene_reports
                    ELSE l.scene_reports,
         Lengths |-> IF pacing_ill_paced(l) /\ l.scene_counter > 1
                     THEN "Significant variation in scene lengths - Consider breaking up longer scenes"
                     ELSE "Scene length distribution is balanced",
         Distribution |-> IF l.total_dialogue_lines = 0
                          THEN <<[msg |-> "No dialogue found in the script."]>>
                          ELSE l.character_lines])

----------------------------------------------------------------------------
(* media_readability.py: readability_analysis *)

LongLine == 100
LongRun == 5
WebMaxLines == 15

\* consecutive_long after the lines content[1..n]
RECURSIVE consecutive_long(_, _)
consecutive_long(content, n) ==
    IF n = 0 THEN 0
    ELSE IF Len(content[n]) > LongLine THEN consecutive_long(content, n - 1) + 1
    ELSE 0

\* blocks counted from the long lines seen so far, consecutive or not
long_line_blocks_without_reset(content) ==
    Cardinality({n \in 1..Len(content) :
        Cardinality({m \in 1..n : Len(content[m]) > LongLine}) >= LongRun})

\* long_line_blocks of a scene
long_line_blocks(content) ==
    Cardinality({n \in 1..Len(content) : consecutive_long(content, n) >= LongRun})

\* long lines of a scene
scene_long_lines(content) ==
    Cardinality({n \in 1..Len(content) : Len(content[n]) > LongLine})

stage_dialogue_lines(content) ==
    Cardinality({n \in 1..Len(content) :
        /\ Strip(content[n]) # <<>>
        /\ ~is_scene_heading(content[n])
        /\ ~is_character_name(content[n])})

Max(a, b) == IF a >= b THEN a ELSE b

\* a divisor taken as the scene length itself
stage_ratio_divisor_unguarded(scene) == Len(scene.content)

\* max(scene_len, 1), the divisor of the dialogue ratio
stage_ratio_divisor(scene) == Max(Len(scene.content), 1)

\* the flags of one scene; the ratio test dialogue_lines / max(scene_len, 1) < 0.3
\* is taken over the integers
readability_scene_flags(scene) ==
    [Web |-> Len(scene.content) > WebMaxLines,
     Stage |-> 10 * stage_dialogue_lines(scene.content)
                  < 3 * stage_ratio_divisor(scene),
     TV |-> long_line_blocks(scene.content) >= 1]

RECURSIVE SumSeq(_)
SumSeq(q) == IF q = <<>> THEN 0 ELSE q[1] + SumSeq(Tail(q))

readability_flags(scs, format) ==
    LET hit == {n \in 1..Len(scs) : readability_scene_flags(scs[n])[format]}
    IN IF hit = {} THEN {[scene |-> 0, msg |-> "No issues found"]}
       ELSE {[scene |-> scs[n].index, msg |-> "flagged"] : n \in hit}

readability_analysis_report(l) ==
    LET scs == segment_close(l)
        long_lines == SumSeq([n \in 1..Len(scs) |-> scene_long_lines(scs[n].content)])
    IN Dividing({stage_ratio_divisor(scs[n]) : n \in 1..Len(scs)},
           [scenes |-> scs,
            Web |-> readability_flags(scs, "Web"),
            TV |-> readability_flags(scs, "TV"),
            Stage |-> readability_flags(scs, "Stage"),
            long_lines |-> long_lines])

----------------------------------------------------------------------------
(* text_to_script.py: format_script *)

\* str.splitlines() for texts whose only line break is "\n"
SplitLinesPy(s) ==
    IF s = <<>> THEN <<>>
    ELSE IF s[Len(s)] = "\n" THEN SplitLines(SubSeq(s, 1, Len(s) - 1))
    ELSE SplitLines(s)

Spaces(n) == [k \in 1..n |-> " "]

NameWidth == 40
TransitionWidth == 60
ParenIndent == 10
DialogueIndent == 5

\* str.center(width): the odd space goes to the right when width is even
Center(s, width) ==
    IF Len(s) >= width THEN s
    ELSE LET pad == width - Len(s)
             left == (pad \div 2) + (IF pad % 2 = 1 /\ width % 2 = 1 THEN 1 ELSE 0)
         IN Spaces(left) \o s \o Spaces(pad - left)

\* f"{s:>width}"
RightAlign(s, width) ==
    IF Len(s) >= width THEN s ELSE Spaces(width - Len(s)) \o s

\* SCENE_RE.match(line): ^\s*(INT\.|EXT\.) ignoring case
SCENE_RE(line) ==
    LET l == Upper(line)
        idx == {k \in 1..Len(l) : ~IsSpace(l[k])}
        lo == IF idx = {} THEN Len(l) + 1
              ELSE CHOOSE k \in idx : \A m \in idx : k <= m
    IN \E p \in HeadingPrefixes : StartsWith(SubSeq(l, lo, Len(l)), p)

TransitionPrefixes ==
    { <<"C","U","T"," ","T","O",":">>,
      <<"F","A","D","E"," ","I","N",":">>,
      <<"F","A","D","E"," ","O","U","T",":">>,
      <<"D","I","S","S","O","L","V","E"," ","T","O",":">> }

\* TRANSITION_RE.match(line): ^\s*(CUT TO:|FADE (IN|OUT):|DISSOLVE TO:) ignoring case
TRANSITION_RE(line) ==
    LET l == Upper(line)
        idx == {k \in 1..Len(l) : ~IsSpace(l[k])}
        lo == IF idx = {} THEN Len(l) + 1
              ELSE CHOOSE k \in idx : \A m \in idx : k <= m
    IN \E p \in TransitionPrefixes : StartsWith(SubSeq(l, lo, Len(l)), p)

\* a character of the class [\w\-\s]
IsNameChar(c) == IsWordChar(c) \/ c = "-" \/ IsSpace(c)

\* the smallest member of a set of positions of s, or Len(s) + 1 if it is empty
FirstOf(idx, s) ==
    IF idx = {} THEN Len(s) + 1
    ELSE CHOOSE k \in idx : \A m \in idx : k <= m

\* where [\w\-\s]+ stops: the first character outside the class
FirstNotNameChar(s) == FirstOf({k \in 1..Len(s) : ~IsNameChar(s[k])}, s)
\* where [^)]+ stops: the first ")" at or after p
FirstClosingParen(s, p) == FirstOf({k \in p..Len(s) : s[k] = ")"}, s)
\* where \s* stops: the first character at or after p that is not white space
FirstNotSpace(s, p) == FirstOf({k \in p..Len(s) : ~IsSpace(s[k])}, s)

NoMatch == [matched |-> FALSE, char_name |-> None, paren |-> None, dialogue |-> None]

\* DIALOGUE_RE.match(line).groups() for
\*   ^\s*([\w\-\s]+?)(?:\s*\(([^)]+)\))?\s*:\s*(.+)$
\* the name is the run of name characters the line starts with (less the
\* white space the following \s* takes); it is followed by an optional
\* non-empty parenthetical, a colon and at least one more character
DIALOGUE_RE(line) ==
    LET p == FirstNotNameChar(line)
    IN IF p = 1 \/ p > Len(line) THEN NoMatch
       ELSE IF line[p] = ":"
       THEN IF p < Len(line)
            THEN [matched |-> TRUE,
                  char_name |-> SubSeq(line, 1, p - 1),
                  paren |-> None,
                  dialogue |-> SubSeq(line, p + 1, Len(line))]
            ELSE NoMatch
       ELSE IF line[p] = "("
       THEN LET q == FirstClosingParen(line, p + 1)
                r == FirstNotSpace(line, q + 1)
            IN IF /\ q <= Len(line) /\ q > p + 1
                  /\ r < Len(line) /\ line[r] = ":"
               THEN [matched |-> TRUE,
                     char_name |-> SubSeq(line, 1, p - 1),
                     paren |-> SubSeq(line, p + 1, q - 1),
                     dialogue |-> SubSeq(line, r + 1, Len(line))]
               ELSE NoMatch
       ELSE NoMatch

format_script_init(text) ==
    [lines |-> SplitLinesPy(text), i |-> 0, formatted |-> <<>>]

\* the lines one name / parenthetical / dialogue match appends
format_inline(m) ==
    <<Center(Strip(Upper(m.char_name)), NameWidth)>>
        \o (IF Truthy(m.paren)
            THEN <<Spaces(ParenIndent) \o <<"(">> \o Strip(m.paren) \o <<")">> >>
            ELSE <<>>)
        \o <<Spaces(DialogueIndent) \o Strip(m.dialogue)>>

\* what one iteration of the for loop appends for the physical line raw
format_line(raw) ==
    LET line == Strip(raw)
        m == DIALOGUE_RE(line)
    IN IF line = <<>> THEN << <<>> >>
       ELSE IF SCENE_RE(line) THEN <<Strip(Upper(line))>>
       ELSE IF TRANSITION_RE(line) THEN <<RightAlign(Upper(line), TransitionWidth)>>
       ELSE IF m.matched THEN format_inline(m)
       ELSE IF is_character_name(line) THEN <<Center(Strip(Upper(line)), NameWidth)>>
       ELSE IF is_emotion(line) THEN <<Spaces(ParenIndent) \o Strip(line)>>
       ELSE IF is_dialogue(line) THEN <<Spaces(DialogueIndent) \o Strip(line)>>
       ELSE <<line>>

format_script_body(l) ==
    [l EXCEPT !.i = l.i + 1,
              !.formatted = l.formatted \o format_line(l.lines[l.i + 1])]

\* '\n'.join(formatted)
format_script_report(l) == JoinLines(l.formatted)

----------------------------------------------------------------------------
(* Calls: an entry point is entered with a text, runs its loop one line  *)
(* at a time and returns its report.                                      *)

Idle == pc \in {"idle", "done"}

\* the log of a session in which no call has returned yet
NoCall == [fn |-> "none", script |-> <<>>, report |-> None, other |-> FALSE]

\* the session's log after a call of f on the text in script returned result:
\* the first call is kept, and so is whether another call has returned since
Logged(f, result, keep) ==
    IF ~keep THEN hist
    ELSE IF hist = NoCall
    THEN [fn |-> f, script |-> script, report |-> result, other |-> FALSE]
    ELSE IF hist.fn = f /\ hist.script = script THEN hist
    ELSE [hist EXCEPT !.other = TRUE]

\* the locals an entry point starts with
InitialLocals(f, text) ==
    CASE f = "character_tracking" -> character_tracking_init(text)
      [] f = "scene_structure_validator" -> scene_structure_validator_init(text)
      [] f = "character_development_validator" ->
            character_development_validator_init(text)
      [] f = "character_speaking_stats" -> character_speaking_stats_init(text)
      [] f = "readability_analysis" -> segment_init(text)
      [] f = "scene_pacing_and_distribution" -> segment_init(text)
      [] f = "format_script" -> format_script_init(text)

\* a call that starts with the speaker context the previous call left behind
Enter_keeping_speaker(f, text) ==
    /\ Idle
    /\ script' = text
    /\ fn' = f
    /\ pc' = "loop"
    /\ loc' = LET locals == InitialLocals(f, text)
              IN IF /\ "current_character" \in DOMAIN loc
                    /\ "current_character" \in DOMAIN locals
                 THEN [locals EXCEPT !.current_character = loc.current_character]
                 ELSE locals
    /\ report' = None
    /\ hist' = hist

Enter(f, text) ==
    /\ Idle
    /\ script' = text
    /\ fn' = f
    /\ pc' = "loop"
    /\ loc' = InitialLocals(f, text)
    /\ report' = None
    /\ hist' = hist

Iterate(f, newloc) ==
    /\ fn = f /\ pc = "loop"
    /\ loc.i < Len(loc.lines)
    /\ loc' = newloc
    /\ UNCHANGED <<script, fn, pc, report, hist>>

\* keep is TRUE when the session logs its first result
Return(f, result, keep) ==
    /\ fn = f /\ pc = "loop"
    /\ loc.i = Len(loc.lines)
    /\ report' = result
    /\ pc' = "done"
    /\ hist' = Logged(f, result, keep)
    /\ UNCHANGED <<script, fn, loc>>

CallCharacterTracking(text) ==
    Enter("character_tracking", text)
StepCharacterTracking ==
    Iterate("character_tracking", character_tracking_body(loc))
ReturnCharacterTracking(keep) ==
    Return("character_tracking", character_tracking_report(loc), keep)

CallSceneStructureValidator(text) ==
    Enter("scene_structure_validator", text)
StepSceneStructureValidator ==
    Iterate("scene_structure_validator", scene_structure_validator_body(loc))
ReturnSceneStructureValidator(keep) ==
    Return("scene_structure_validator", scene_structure_validator_report(loc), keep)

CallCharacterDevelopment(text) ==
    Enter("character_development_validator", text)
StepCharacterDevelopment ==
    Iterate("character_development_validator",
            character_development_validator_body(loc))
ReturnCharacterDevelopment(keep) ==
    Return("character_development_validator",
           character_development_validator_report(loc), keep)

CallCharacterSpeakingStats(text) ==
    Enter("character_speaking_stats", text)
StepCharacterSpeakingStats ==
    Iterate("character_speaking_stats", character_speaking_stats_body(loc))
ReturnCharacterSpeakingStats(keep) ==
    Return("character_speaking_stats", character_speaking_stats_report(loc), keep)

CallReadabilityAnalysis(text) ==
    Enter("readability_analysis", text)
StepReadabilitySegment ==
    Iterate("readability_analysis", segment_body(loc))
ReturnReadabilityAnalysis(keep) ==
    Return("readability_analysis", readability_analysis_report(loc), keep)

CallScenePacing(text) ==
    Enter("scene_pacing_and_distribution", text)
StepPacingSegment ==
    Iterate("scene_pacing_and_distribution", segment_body(loc))

\* the segmentation loop is over: the analysis loops start
PacingSegmented ==
    /\ fn = "scene_pacing_and_distribution" /\ pc = "loop"
    /\ loc.i = Len(loc.lines)
    /\ loc' = pacing_analysis_init(loc)
    /\ pc' = "scenes"
    /\ UNCHANGED <<script, fn, report, hist>>

PacingSceneBegin ==
    /\ fn = "scene_pacing_and_distribution" /\ pc = "scenes"
    /\ loc.s < Len(loc.scenes)
    /\ loc' = pacing_scene_begin(loc)
    /\ pc' = "content"
    /\ UNCHANGED <<script, fn, report, hist>>

StepPacingContent ==
    /\ fn = "scene_pacing_and_distribution" /\ pc = "content"
    /\ loc.j < Len(loc.scenes[loc.s + 1].content)
    /\ loc' = pacing_content_body(loc)
    /\ UNCHANGED <<script, fn, pc, report, hist>>

PacingSceneEnd ==
    /\ fn = "scene_pacing_and_distribution" /\ pc = "content"
    /\ loc.j = Len(loc.scenes[loc.s + 1].content)
    /\ loc' = pacing_scene_end(loc)
    /\ pc' = "scenes"
    /\ UNCHANGED <<script, fn, report, hist>>

ReturnScenePacing(keep) ==
    /\ fn = "scene_pacing_and_distribution" /\ pc = "scenes"
    /\ loc.s = Len(loc.scenes)
    /\ report' = scene_pacing_and_distribution_report(loc)
    /\ pc' = "done"
    /\ hist' = Logged(fn, report', keep)
    /\ UNCHANGED <<script, fn, loc>>

CallFormatScript(text) ==
    Enter("format_script", text)
StepFormatScript ==
    Iterate("format_script", format_script_body(loc))
ReturnFormatScript(keep) ==
    Return("format_script", format_script_report(loc), keep)

Init ==
    /\ script \in ScriptSpace
    /\ fn = "idle"
    /\ pc = "idle"
    /\ loc = [i |-> 0, lines |-> <<>>]
    /\ report = None
    /\ hist = NoCall

Next ==
    \/ CallCharacterTracking(script)
    \/ StepCharacterTracking
    \/ ReturnCharacterTracking(FALSE)
    \/ CallSceneStructureValidator(script)
    \/ StepSceneStructureValidator
    \/ ReturnSceneStructureValidator(FALSE)
    \/ CallCharacterDevelopment(script)
    \/ StepCharacterDevelopment
    \/ ReturnCharacterDevelopment(FALSE)
    \/ CallCharacterSpeakingStats(script)
    \/ StepCharacterSpeakingStats
    \/ ReturnCharacterSpeakingStats(FALSE)
    \/ CallReadabilityAnalysis(script)
    \/ StepReadabilitySegment
    \/ ReturnReadabilityAnalysis(FALSE)
    \/ CallScenePacing(script)
    \/ StepPacingSegment
    \/ PacingSegmented
    \/ PacingSceneBegin
    \/ StepPacingContent
    \/ PacingSceneEnd
    \/ ReturnScenePacing(FALSE)

Spec == Init /\ [][Next]_vars

----------------------------------------------------------------------------
(* The heuristics on their own: one line is classified by all six *)

classify(line) ==
    [SceneHeading |-> is_scene_heading(line),
     Transition |-> is_transition(line),
     Emotion |-> is_emotion(line),
     CharacterCue |-> is_character_name(line),
     Action |-> is_action(line),
     Dialogue |-> is_dialogue(line)]

RECURSIVE Repeat(_, _)
Repeat(c, n) == IF n = 0 THEN <<>> ELSE <<c>> \o Repeat(c, n - 1)

LinePads == { <<>>, <<" ">> }
LinePrefixes == { <<>>, <<"I","N","T",".">>, <<"e","x","t",".">>, <<"(">> }
LineBodies ==
    { <<>>, <<"A","L">>, <<"a","l">>, <<"A"," ","b">>, <<"a"," ","b"," ","c">>,
      <<"A"," ","B"," ","C"," ","D"," ","E">>,
      <<"a"," ","b"," ","c"," ","d">> }
LineSuffixes ==
    { <<>>, <<"T","O",":">>, <<"i","n",":">>, <<"O","U","T",":">>,
      <<".">>, <<"?">>, <<"!">>, <<")">> }

\* lines composed of an opening, a body and an ending, bare or padded, and
\* two upper-case words at and just over the length limit of a name
LineSpace ==
    {pad \o pre \o body \o suf \o pad :
        pad \in LinePads, pre \in LinePrefixes,
        body \in LineBodies, suf \in LineSuffixes}
    \cup {Repeat("A", NameMaxLen), Repeat("A", NameMaxLen + 1)}

InitClassify ==
    /\ script \in LineSpace
    /\ fn = "idle"
    /\ pc = "idle"
    /\ loc = [i |-> 0, lines |-> <<>>]
    /\ report = None
    /\ hist = NoCall

Classify ==
    /\ pc = "idle"
    /\ fn' = "classify"
    /\ pc' = "done"
    /\ report' = classify(script)
    /\ UNCHANGED <<script, loc, hist>>

SpecClassify == InitClassify /\ [][Classify]_vars

Classified == fn = "classify" /\ pc = "done"

\* the four structural tags a classified line carries
StructuralTags ==
    {t \in {"SceneHeading", "Transition", "Emotion", "CharacterCue"} : report[t]}

(* C1: a line carries at most one of the tags SceneHeading, Transition,   *)
(* Emotion, CharacterCue, and a line carrying one of them is neither      *)
(* Action nor Dialogue.                                                    *)
C1_StructuralTagsExclusive ==
    Classified =>
        /\ Cardinality(StructuralTags) <= 1
        /\ StructuralTags # {} => ~report.Action /\ ~report.Dialogue

\* the trimmed line ends in c
LineEndsIn(c) == EndsWith(Strip(script), <<c>>)

----------------------------------------------------------------------------
(* Scene segmentation *)

IsBlank(line) == Strip(line) = <<>>

HeadingPositions(ls) == {n \in 1..Len(ls) : is_scene_heading(ls[n])}

\* the j-th smallest member of a set of numbers
Nth(S, j) == CHOOSE x \in S : Cardinality({y \in S : y < x}) = j - 1

\* the lines strictly between the j-th heading and the next one (or the end)
LinesOfScene(ls, j) ==
    LET H == HeadingPositions(ls)
        first == Nth(H, j) + 1
        last == IF j < Cardinality(H) THEN Nth(H, j + 1) - 1 ELSE Len(ls)
    IN SubSeq(ls, first, last)

SegmentedAsClaimed(scs, ls) ==
    /\ Len(scs) = Cardinality(HeadingPositions(ls))
    /\ \A j \in 1..Len(scs) :
          /\ scs[j].index = j
          /\ scs[j].heading = Strip(ls[Nth(HeadingPositions(ls), j)])
          /\ scs[j].content = LinesOfScene(ls, j)

PacingSegmentationDone ==
    fn = "scene_pacing_and_distribution" /\ pc \in {"scenes", "content", "done"}
ReadabilityDone == fn = "readability_analysis" /\ pc = "done"

(* C2: the segmentation loop of scene_pacing_and_distribution and of      *)
(* readability_analysis turns a line sequence with k scene headings into  *)
(* exactly k scenes numbered 1..k in order; scene j has the j-th heading  *)
(* (trimmed) and, as content, exactly the lines strictly between that     *)
(* heading and the next heading or the end of the input.                  *)
C2_SegmentationByHeadings ==
    /\ PacingSegmentationDone => SegmentedAsClaimed(loc.scenes, ScriptLines(script))
    /\ ReadabilityDone => SegmentedAsClaimed(report.scenes, ScriptLines(script))

\* two scenes, lines before the first heading, content in the second scene
C2_Witness ==
    /\ ReadabilityDone
    /\ Len(report.scenes) = 2
    /\ ~is_scene_heading(ScriptLines(script)[1])
    /\ report.scenes[2].content # <<>>

----------------------------------------------------------------------------
(* Speaker context *)

TrackingScans ==
    {"character_tracking", "character_development_validator",
     "character_speaking_stats"}

\* a scan over all the lines has just handled line loc.i
LineScanned == fn \in TrackingScans /\ pc = "loop" /\ loc.i >= 1
\* the pacing scan has just handled line loc.j of the scene's content
ContentScanned ==
    fn = "scene_pacing_and_distribution" /\ pc = "content" /\ loc.j >= 1

LastScanned ==
    IF LineScanned THEN loc.lines[loc.i]
    ELSE loc.scenes[loc.s + 1].content[loc.j]

ScannedSoFar ==
    IF LineScanned THEN SubSeq(loc.lines, 1, loc.i)
    ELSE SubSeq(loc.scenes[loc.s + 1].content, 1, loc.j)

(* C3: in character_tracking, character_development_validator,            *)
(* scene_pacing_and_distribution and character_speaking_stats the current *)
(* speaker is none until a character cue has been scanned and is none     *)
(* right after a blank line has been scanned.                             *)
C3_BlankClearsSpeaker ==
    (LineScanned \/ ContentScanned) =>
        /\ (\A n \in 1..Len(ScannedSoFar) : ~is_character_name(ScannedSoFar[n]))
              => loc.current_character = None
        /\ IsBlank(LastScanned) => loc.current_character = None

\* a line that is neither a character cue nor blank
KeepsSpeaker(line) == ~is_character_name(line) /\ ~IsBlank(line)

\* a step of a scan over all the lines that handles one line
LineStep ==
    /\ fn \in TrackingScans /\ pc = "loop" /\ pc' = "loop"
    /\ loc'.i = loc.i + 1

\* a step of the pacing scan that handles one line of a scene's content
ContentStep ==
    /\ fn = "scene_pacing_and_distribution" /\ pc = "content" /\ pc' = "content"
    /\ loc'.j = loc.j + 1

\* the pacing scan moves past a scene heading into that scene's content
HeadingStep ==
    fn = "scene_pacing_and_distribution" /\ pc = "scenes" /\ pc' = "content"

SpeakerUnchanged == loc'.current_character = loc.current_character

----------------------------------------------------------------------------
(* Attribution *)

\* the speaker context after the first n lines, by the rule: a cue sets it,
\* a blank line clears it, any other line keeps it
RECURSIVE SpeakerAfter(_, _)
SpeakerAfter(ls, n) ==
    IF n = 0 THEN None
    ELSE IF is_character_name(ls[n]) THEN Upper(Strip(ls[n]))
    ELSE IF IsBlank(ls[n]) THEN None
    ELSE SpeakerAfter(ls, n - 1)

DialoguePositions(ls) == {n \in 1..Len(ls) : is_dialogue(ls[n])}

\* dialogue lines reached with a speaker c / with no speaker
SpokenBy(ls, c) == {n \in DialoguePositions(ls) : SpeakerAfter(ls, n - 1) = c}
Unassigned(ls) == SpokenBy(ls, None)

TrackingDone == fn = "character_tracking" /\ pc = "done"

(* C5: character_tracking counts every dialogue line once, under the      *)
(* current speaker or, when there is none, under UNKNOWN; it reports      *)
(* 'Some dialogue has no character assigned' exactly when some dialogue   *)
(* line was scanned with no current speaker, and 'No character            *)
(* assignment issues' otherwise.                                          *)
C5_UnassignedReportedExactly ==
    TrackingDone =>
        LET ls == ScriptLines(script)
        IN /\ report.total_lines = Cardinality(DialoguePositions(ls))
           /\ \A n \in DialoguePositions(ls) :
                 LET c == SpeakerAfter(ls, n - 1)
                 IN Get(report.Characters, IF c = None THEN UNKNOWN ELSE c) >= 1
           /\ report.CharacterReport =
                 IF Unassigned(ls) # {}
                 THEN "Some dialogue has no character assigned"
                 ELSE "No character assignment issues"

StructureDone == fn = "scene_structure_validator" /\ pc = "done"

\* the dialogue lines that follow a parenthetical that follows a cue
AfterCueAndEmotion(ls) ==
    {n \in DialoguePositions(ls) :
        n >= 3 /\ is_emotion(ls[n - 1]) /\ is_character_name(ls[n - 2])}

\* the dialogue lines that directly follow a cue
AfterCue(ls) ==
    {n \in DialoguePositions(ls) : n >= 2 /\ is_character_name(ls[n - 1])}

(* C6: scene_structure_validator counts every dialogue line that follows  *)
(* a parenthetical that follows a character cue under that cue's          *)
(* upper-cased name.                                                      *)
C6_EmotionLookbackAttributes ==
    StructureDone =>
        LET ls == ScriptLines(script)
        IN \A c \in {Upper(Strip(ls[n - 2])) : n \in AfterCueAndEmotion(ls)} :
              Get(loc.character_lines, c) >=
                 Cardinality({n \in AfterCueAndEmotion(ls) :
                                 Upper(Strip(ls[n - 2])) = c})

GapMessage == "dialogue not preceded by character name"

(* C7: scene_structure_validator reports 'Line n: dialogue not preceded   *)
(* by character name', and counts the line under UNKNOWN, exactly for the *)
(* dialogue lines n that follow neither a cue nor a parenthetical that    *)
(* follows a cue; 'No scene structure issues' is reported exactly when    *)
(* there is no such line.                                                 *)
C7_GapReportedExactly ==
    StructureDone =>
        LET ls == ScriptLines(script)
            gaps == DialoguePositions(ls) \ (AfterCue(ls) \cup AfterCueAndEmotion(ls))
            reported == {loc.scene_issues[m].n : m \in 1..Len(loc.scene_issues)}
        IN /\ reported = gaps
           /\ \A m \in 1..Len(loc.scene_issues) : loc.scene_issues[m].msg = GapMessage
           /\ Get(loc.character_lines, UNKNOWN) = Cardinality(gaps)
           /\ (report.SceneReports = <<[n |-> 0, msg |-> "No scene structure issues"]>>)
                 <=> (gaps = {})

----------------------------------------------------------------------------
(* Scripts of k scenes, each a heading, a blank line, one cue and one     *)
(* dialogue line                                                           *)

ShapeTable ==
    UNION {{[text |-> t, cue |-> c, k |-> k] : t \in ShapeScripts(c, k)} :
              c \in ShapeCues, k \in 1..MaxScenes}

DevelopmentDone == fn = "character_development_validator" /\ pc = "done"
PacingDone == fn = "scene_pacing_and_distribution" /\ pc = "done"

SARAH == <<"S","A","R","A","H">>

(* C8: for a script of k scenes, each a scene heading, a blank line, the  *)
(* cue C and one dialogue line, consecutive scenes optionally separated   *)
(* by a blank line and a transition, the scans find k scenes and count k  *)
(* dialogue lines for C, one in each scene; on the two-scene SARAH        *)
(* example character_development_validator reports 'SARAH: Speaks 2       *)
(* times across 2 scenes'.                                                 *)
C8_OneLinePerScene ==
    /\ \A r \in ShapeTable :
          r.text = script =>
             /\ DevelopmentDone =>
                   /\ loc.scenes = r.k
                   /\ loc.character_speakers = <<[k |-> r.cue, v |-> r.k]>>
                   /\ GetSet(loc.scene_map, r.cue) = 1..r.k
             /\ PacingDone =>
                   /\ Len(loc.scenes) = r.k
                   /\ \A n \in 1..r.k : loc.scene_reports[n].dialogue = 1
                   /\ loc.character_lines = <<[k |-> r.cue, v |-> r.k]>>
    /\ DevelopmentDone /\ script = TwoSceneExample =>
          report.Speaking =
             <<[char |-> SARAH, text |-> "Speaks times across scenes",
                times |-> 2, scenes |-> 2]>>

\* the SARAH example has been analysed
C8_Witness ==
    /\ DevelopmentDone
    /\ script = TwoSceneExample
    /\ loc.scenes = 2
    /\ Get(loc.character_speakers, SARAH) = 2

----------------------------------------------------------------------------
(* A session of calls: any entry point on any text, one call after        *)
(* another, with the first call's result kept for comparison              *)

RerunMaxLines == 2

RerunPool == { <<"I","N","T",".">>, <<"A","L">>, <<"H","i",".">> }

RerunScripts == Scripts(RerunPool, RerunMaxLines)

InitRerun ==
    /\ script \in RerunScripts
    /\ fn = "idle"
    /\ pc = "idle"
    /\ loc = [i |-> 0, lines |-> <<>>]
    /\ report = None
    /\ hist = NoCall

NextRerun ==
    \/ \E text \in RerunScripts :
          \/ CallCharacterTracking(text)
          \/ CallSceneStructureValidator(text)
          \/ CallCharacterDevelopment(text)
          \/ CallCharacterSpeakingStats(text)
          \/ CallReadabilityAnalysis(text)
          \/ CallScenePacing(text)
    \/ StepCharacterTracking
    \/ ReturnCharacterTracking(TRUE)
    \/ StepSceneStructureValidator
    \/ ReturnSceneStructureValidator(TRUE)
    \/ StepCharacterDevelopment
    \/ ReturnCharacterDevelopment(TRUE)
    \/ StepCharacterSpeakingStats
    \/ ReturnCharacterSpeakingStats(TRUE)
    \/ StepReadabilitySegment
    \/ ReturnReadabilityAnalysis(TRUE)
    \/ StepPacingSegment
    \/ PacingSegmented
    \/ PacingSceneBegin
    \/ StepPacingContent
    \/ PacingSceneEnd
    \/ ReturnScenePacing(TRUE)

SpecRerun == InitRerun /\ [][NextRerun]_vars

\* the call that just returned repeats the first call of the session
FirstCallRepeated ==
    pc = "done" /\ hist.fn = fn /\ hist.script = script

----------------------------------------------------------------------------
(* Formatting: format_script applied to a text of a few physical lines *)

FormatMaxLines == 2

\* one physical line per rule of the formatter and per overlap of two rules
FormatPool ==
    { <<"C","U","T"," ","T","O",":"," ","x">>,            \* a transition prefix followed by text: also name and dialogue
      <<"J","U","M","P"," ","T","O",":">>,                \* ends like a transition, not a listed transition
      <<"c","u","t"," ","t","o",":">>,                    \* a listed transition in lower case
      <<"A"," ","B",":"," ","I","N",":">>,                \* name and dialogue whose dialogue ends like a transition
      <<"A","l"," ","(","b",")",":"," ","c">>,            \* name, parenthetical and dialogue
      <<"a",":","b">>,                                    \* name and dialogue
      <<"i","n","t","."," ","a">>,                        \* scene heading
      <<"A","L">>,                                        \* character cue
      <<"(","a",")">>,                                    \* parenthetical
      <<"H","i",".">>,                                    \* dialogue
      <<"g","o">>,                                        \* action
      <<>>,                                               \* blank
      <<" ">> }                                           \* white space only

FormatScripts == Scripts(FormatPool, FormatMaxLines)

InitFormat ==
    /\ script \in FormatScripts
    /\ fn = "idle"
    /\ pc = "idle"
    /\ loc = [i |-> 0, lines |-> <<>>]
    /\ report = None
    /\ hist = NoCall

NextFormat ==
    \/ CallFormatScript(script)
    \/ StepFormatScript
    \/ ReturnFormatScript(FALSE)

SpecFormat == InitFormat /\ [][NextFormat]_vars
FormatRunning == fn = "format_script" /\ pc = "loop"
FormatDone == fn = "format_script" /\ pc = "done"

\* the for loop of format_script handles one more physical line in this step
FormatStep == FormatRunning /\ loc'.i = loc.i + 1

\* the physical line handled by the step, and what the step appended
FormatStepLine == loc.lines[loc.i + 1]
FormatStepAppended ==
    SubSeq(loc'.formatted, Len(loc.formatted) + 1, Len(loc'.formatted))

\* the inline pattern 'Name[(parenthetical)]: dialogue' on the trimmed line
InlineMatch(raw) == DIALOGUE_RE(Strip(raw))

\* the rendering of a line by the first matching rule, the inline pattern first
RenderedInlineFirst(raw) ==
    LET line == Strip(raw)
        m == InlineMatch(raw)
    IN IF m.matched THEN format_inline(m)
       ELSE IF is_scene_heading(line) THEN <<Upper(line)>>
       ELSE IF is_transition(line) THEN <<RightAlign(Upper(line), TransitionWidth)>>
       ELSE IF is_character_name(line) THEN <<Center(Upper(line), NameWidth)>>
       ELSE IF is_emotion(line) THEN <<Spaces(ParenIndent) \o line>>
       ELSE IF is_dialogue(line) THEN <<Spaces(DialogueIndent) \o line>>
       ELSE <<line>>

(* C11: format_script renders every non-blank line by the first matching *)
(* rule in the order inline 'Name[(parenthetical)]: dialogue' pattern,    *)
(* scene heading, transition, character cue, emotion, dialogue, action;   *)
(* in particular a line matching the inline pattern is always emitted as  *)
(* name / optional parenthetical / dialogue lines.                        *)
C11_InlineRuleFirst ==
    [][FormatStep /\ Strip(FormatStepLine) # <<>> =>
          FormatStepAppended = RenderedInlineFirst(FormatStepLine)]_vars

(* C12: for every line that ends like a transition ('TO:', 'OUT:', 'IN:'  *)
(* after trimming and upper-casing) and matches neither the inline        *)
(* pattern nor the scene heading rule, format_script emits exactly one    *)
(* line, the upper-cased text right-aligned in a 60-column field.         *)
C12_TransitionRightAligned ==
    [][/\ FormatStep
       /\ is_transition(FormatStepLine)
       /\ ~InlineMatch(FormatStepLine).matched
       /\ ~is_scene_heading(FormatStepLine)
       => FormatStepAppended =
             <<RightAlign(Upper(Strip(FormatStepLine)), TransitionWidth)>>]_vars

InlineWithoutParen(raw) ==
    InlineMatch(raw).matched /\ ~Truthy(InlineMatch(raw).paren)
InlineWithParen(raw) ==
    InlineMatch(raw).matched /\ Truthy(InlineMatch(raw).paren)

(* C13: format_script emits one output line per input line (an empty line *)
(* for a blank or white-space-only one), except 2 lines for an inline     *)
(* match without parenthetical and 3 for one with a parenthetical: the    *)
(* number of output lines is the number of input lines plus 1 per inline  *)
(* match without parenthetical plus 2 per inline match with one.          *)
C13_OutputLineCount ==
    FormatDone =>
       /\ Len(loc.formatted) =
             Len(loc.lines)
                + Cardinality({k \in 1..Len(loc.lines) :
                                  InlineWithoutParen(loc.lines[k])})
                + 2 * Cardinality({k \in 1..Len(loc.lines) :
                                      InlineWithParen(loc.lines[k])})
       /\ \A k \in 1..Len(loc.lines) :
             Strip(loc.lines[k]) = <<>> =>
                \E n \in 1..Len(loc.formatted) : loc.formatted[n] = <<>>
----------------------------------------------------------------------------
(* Totality: no analysis ends in an exception *)

SpeakingDone == fn = "character_speaking_stats" /\ pc = "done"

NoIssues == {[scene |-> 0, msg |-> "No issues found"]}

\* some scene of the text has no content line
SomeEmptyScene(text) ==
    \E k \in 1..Len(ScriptLines(text)) :
        /\ is_scene_heading(ScriptLines(text)[k])
        /\ \/ k = Len(ScriptLines(text))
           \/ is_scene_heading(ScriptLines(text)[k + 1])

(* C14: every analysis function returns a result without raising for any *)
(* script (the empty script, a script without scene heading, scenes       *)
(* without dialogue and a scene with empty content included): no          *)
(* percentage or ratio is computed with a zero divisor; the empty script  *)
(* yields 'No scenes detected' (pacing), 'No dialogue lines found'        *)
(* (speaking time) and 'No issues found' for every format (readability).  *)
C14_NoAnalysisRaises ==
    pc = "done" =>
       /\ report # ZeroDivisionError
       /\ TrackingDone => 0 \notin character_tracking_divisors(loc)
       /\ PacingDone => 0 \notin pacing_divisors(loc)
       /\ ReadabilityDone =>
             \A n \in 1..Len(report.scenes) :
                stage_ratio_divisor(report.scenes[n]) # 0
       /\ script = <<>> =>
             /\ PacingDone => report.Scenes = <<[msg |-> "No scenes detected"]>>
             /\ SpeakingDone => report.NoDialogue = <<"No dialogue lines found">>
             /\ ReadabilityDone =>
                   /\ report.Web = NoIssues
                   /\ report.TV = NoIssues
                   /\ report.Stage = NoIssues

\* readability_analysis has returned for a text with an empty scene, whose
\* dialogue ratio is taken over a scene length of 0
C14_Witness ==
    /\ ReadabilityDone
    /\ SomeEmptyScene(script)
    /\ \E n \in 1..Len(report.scenes) : Len(report.scenes[n].content) = 0
----------------------------------------------------------------------------
(* Scene counts of character_development_validator *)

\* the number of the scene line n lies in: the headings before it (0 before
\* the first heading)
SceneOf(ls, n) == Cardinality({h \in HeadingPositions(ls) : h < n})

\* the scenes with at least one dialogue line attributed to c
ScenesSpokenIn(ls, c) == {SceneOf(ls, n) : n \in SpokenBy(ls, c)} \ {0}

(* C15: in character_development_validator the number of scenes a          *)
(* character is reported to speak across is the number of distinct scenes, *)
(* each opened by a scene heading, with at least one dialogue line         *)
(* attributed to the character; dialogue before the first heading belongs  *)
(* to no scene, so the number never exceeds the number of scene headings.  *)
C15_ScenesSpokenAcross ==
    DevelopmentDone =>
        LET ls == ScriptLines(script)
        IN \A n \in 1..Len(report.Speaking) :
              report.Speaking[n].text = "Speaks times across scenes" =>
                 /\ report.Speaking[n].scenes =
                       Cardinality(ScenesSpokenIn(ls, report.Speaking[n].char))
                 /\ report.Speaking[n].scenes <= Cardinality(HeadingPositions(ls))
----------------------------------------------------------------------------
(* The report of character_speaking_stats *)

(* C16: character_speaking_stats lists the characters ranked by how much   *)
(* they speak: of any two characters in the report, the one with more      *)
(* attributed dialogue lines appears before the one with fewer.            *)
C16_RankedBySpeaking ==
    SpeakingDone =>
        \A a, b \in 1..Len(report.Characters) :
            report.Characters[a].Lines > report.Characters[b].Lines => a < b
\* the key a dialogue line scanned after ls[1..n] is counted under: the most
\* recently scanned character cue, or UNKNOWN when there is none
RECURSIVE LastCue(_, _)
LastCue(ls, n) ==
    IF n = 0 THEN UNKNOWN
    ELSE IF is_character_name(ls[n]) THEN Upper(Strip(ls[n]))
    ELSE LastCue(ls, n - 1)

\* the dialogue lines counted under the key c
CountedUnder(ls, c) == {n \in DialoguePositions(ls) : LastCue(ls, n - 1) = c}

ReportedLines == [n \in 1..Len(report.Characters) |-> report.Characters[n].Lines]

(* C17: after character_speaking_stats has scanned a script, the reported  *)
(* 'Total dialogue lines' is the number of lines satisfying is_dialogue    *)
(* and the sum of the 'Lines' counts of all report keys; each dialogue     *)
(* line is counted under exactly one key, the most recently scanned        *)
(* character cue, or UNKNOWN when no cue precedes it; 'No dialogue lines   *)
(* found' is printed if and only if that total is 0.                       *)
C17_DialogueLinesAccounted ==
    SpeakingDone =>
        LET ls == ScriptLines(script)
        IN /\ report.TotalDialogueLines = Cardinality(DialoguePositions(ls))
           /\ report.TotalDialogueLines = SumSeq(ReportedLines)
           /\ \A n \in 1..Len(report.Characters) :
                 report.Characters[n].Lines =
                    Cardinality(CountedUnder(ls, report.Characters[n].character))
           /\ \A n \in DialoguePositions(ls) :
                 \E m \in 1..Len(report.Characters) :
                    report.Characters[m].character = LastCue(ls, n - 1)
           /\ \A a, b \in 1..Len(report.Characters) :
                 report.Characters[a].character = report.Characters[b].character
                    => a = b
           /\ (report.NoDialogue = <<"No dialogue lines found">>)
                 <=> (report.TotalDialogueLines = 0)

\* a report with a dialogue line counted under UNKNOWN and one counted under
\* a cue scanned before a blank line
C17_Witness ==
    /\ SpeakingDone
    /\ report.TotalDialogueLines = 2
    /\ Len(report.Characters) = 2
    /\ report.Characters[1].character = UNKNOWN
    /\ \E n \in DialoguePositions(ScriptLines(script)) :
          n >= 3 /\ IsBlank(ScriptLines(script)[n - 1])
             /\ is_character_name(ScriptLines(script)[n - 2])
----------------------------------------------------------------------------
(* Scene lengths: scene_pacing_and_distribution on texts of up to three   *)
(* scenes of different lengths                                            *)

PacingMaxContent == 4

\* the content of a scene: an optional cue, some dialogue lines and an
\* optional action line
PacingContent ==
    {c \o [n \in 1..a |-> <<"H","i",".">>] \o g :
        c \in {<<>>, << <<"A","L">> >>},
        a \in 0..PacingMaxContent,
        g \in {<<>>, << <<"g","o">> >>}}

\* the content of a scene of dialogue lines only
PlainContent == {[n \in 1..a |-> <<"H","i",".">>] : a \in 0..PacingMaxContent}

PacingHeading == << <<"I","N","T",".">> >>

PacingLineSeqs ==
    {<<>>, << <<"H","i",".">> >>}
       \cup {PacingHeading \o c : c \in PacingContent}
       \cup {PacingHeading \o c \o PacingHeading \o d : c, d \in PacingContent}
       \cup {PacingHeading \o c \o PacingHeading \o d \o PacingHeading \o e :
                c, d, e \in PlainContent}

PacingScripts == {JoinLines(ls) : ls \in PacingLineSeqs}

InitPacing ==
    /\ script \in PacingScripts
    /\ fn = "idle"
    /\ pc = "idle"
    /\ loc = [i |-> 0, lines |-> <<>>]
    /\ report = None
    /\ hist = NoCall

NextPacing ==
    \/ CallScenePacing(script)
    \/ StepPacingSegment
    \/ PacingSegmented
    \/ PacingSceneBegin
    \/ StepPacingContent
    \/ PacingSceneEnd
    \/ ReturnScenePacing(FALSE)

SpecPacing == InitPacing /\ [][NextPacing]_vars

\* dialogue lines + action lines of the n-th scene, as the scene report
\* gives them
ReportedLength(n) == loc.scene_reports[n].dialogue + loc.scene_reports[n].action

\* the report opens its scene list with the message m
ScenesMessage(m) ==
    /\ Len(report.Scenes) >= 1
    /\ "msg" \in DOMAIN report.Scenes[1]
    /\ report.Scenes[1].msg = m

Significant ==
    "Significant variation in scene lengths - Consider breaking up longer scenes"

(* C18: scene_pacing_and_distribution reports 'Significant variation in   *)
(* scene lengths - Consider breaking up longer scenes' if and only if the *)
(* script has at least 2 scenes and some pair of consecutive scenes       *)
(* differs by 4 or more in dialogue lines + action lines, and 'Scene      *)
(* length distribution is balanced' in every other case; it reports 'No   *)
(* scenes detected' exactly for 0 scenes and 'Only one scene detected'    *)
(* exactly for 1 scene.                                                   *)
C18_SceneLengthVariation ==
    PacingDone =>
        LET k == Cardinality(HeadingPositions(ScriptLines(script)))
            varies == /\ k >= 2
                      /\ \E n \in 1..(k - 1) :
                            Abs(ReportedLength(n + 1) - ReportedLength(n)) >= 4
        IN /\ Len(loc.scene_reports) = k
           /\ report.Lengths =
                 IF varies THEN Significant
                 ELSE "Scene length distribution is balanced"
           /\ ScenesMessage("No scenes detected") <=> (k = 0)
           /\ ScenesMessage("Only one scene detected") <=> (k = 1)

\* three scenes whose neighbours differ by less than 4 while the first and
\* the last differ by 4
C18_Witness ==
    /\ PacingDone
    /\ Len(loc.scene_reports) = 3
    /\ Abs(ReportedLength(3) - ReportedLength(1)) = 4
    /\ Abs(ReportedLength(2) - ReportedLength(1)) = 2
    /\ report.Lengths = "Scene length distribution is balanced"
----------------------------------------------------------------------------
(* Introductions reported by character_development_validator *)

\* c is the text of some character cue of ls
AppearsAsCue(ls, c) ==
    \E n \in 1..Len(ls) : is_character_name(ls[n]) /\ Strip(ls[n]) = c

(* C19: character_development_validator labels an introduced character    *)
(* 'Introduced via action only' exactly when the character was introduced  *)
(* by a mention in an action line and never appears as a character cue,    *)
(* and 'Introduced via dialogue only' exactly when its first appearance is *)
(* as a character cue; a 'Never speaks' warning is issued for exactly the  *)
(* introduced characters with no attributed dialogue line.                 *)
C19_IntroductionLabels ==
    DevelopmentDone =>
        LET ls == ScriptLines(script)
        IN /\ \A n \in 1..Len(report.Introduced) :
                 LET e == report.Introduced[n]
                     first_is_cue == /\ is_character_name(ls[e.line])
                                     /\ Strip(ls[e.line]) = e.char
                 IN /\ (e.how = "Introduced via action only")
                          <=> (~first_is_cue /\ ~AppearsAsCue(ls, e.char))
                    /\ (e.how = "Introduced via dialogue only") <=> first_is_cue
           /\ report.Warnings =
                 {report.Introduced[n].char :
                     n \in {m \in 1..Len(report.Introduced) :
                              SpokenBy(ls, report.Introduced[m].char) = {}}}
----------------------------------------------------------------------------
(* Format flags: readability_analysis on scenes of long lines and on long *)
(* scenes                                                                 *)

ReadMaxLines == 6

\* a line of LongLine + 1 characters and one of LongLine characters
ReadPool == {Repeat("x", LongLine + 1), Repeat("y", LongLine)}

\* one scene with up to ReadMaxLines content lines
OneSceneLineSeqs == {PacingHeading \o c : c \in LineSeqs(ReadPool, ReadMaxLines)}

\* one scene of long lines with a blank line among them
BlankInRunLineSeqs ==
    {PacingHeading \o [n \in 1..a |-> Repeat("x", LongLine + 1)] \o << <<>> >>
        \o [n \in 1..b |-> Repeat("x", LongLine + 1)] :
        a \in 0..(ReadMaxLines - 1), b \in 1..(ReadMaxLines - 1)}

\* a run of long lines with a scene heading inside it
SplitRunLineSeqs ==
    {PacingHeading \o [n \in 1..a |-> Repeat("x", LongLine + 1)]
        \o PacingHeading \o [n \in 1..b |-> Repeat("x", LongLine + 1)] :
        a, b \in 0..(ReadMaxLines - 1)}

\* one scene of about WebMaxLines short lines, alone or after a short scene
LongSceneLineSeqs ==
    {first \o PacingHeading \o [n \in 1..a |-> <<"g","o">>] :
        first \in {<<>>, PacingHeading \o << <<"g","o">> >>},
        a \in (WebMaxLines - 1)..(WebMaxLines + 2)}

ReadabilityScripts ==
    {JoinLines(ls) :
        ls \in OneSceneLineSeqs \cup BlankInRunLineSeqs \cup SplitRunLineSeqs
                  \cup LongSceneLineSeqs}

InitReadability ==
    /\ script \in ReadabilityScripts
    /\ fn = "idle"
    /\ pc = "idle"
    /\ loc = [i |-> 0, lines |-> <<>>]
    /\ report = None
    /\ hist = NoCall

NextReadability ==
    \/ CallReadabilityAnalysis(script)
    \/ StepReadabilitySegment
    \/ ReturnReadabilityAnalysis(FALSE)

SpecReadability == InitReadability /\ [][NextReadability]_vars

\* content has 5 consecutive lines of more than 100 characters each
HasLongRun(content) ==
    \E n \in 1..Len(content) :
        /\ n + 4 <= Len(content)
        /\ \A m \in n..(n + 4) : Len(content[m]) > 100

Flagged(flags, index) == [scene |-> index, msg |-> "flagged"] \in flags

(* C20: readability_analysis flags a scene for TV ('dense narration       *)
(* blocks') if and only if the scene's content has a run of at least 5    *)
(* consecutive lines of more than 100 characters each (a line of 100      *)
(* characters or fewer, a blank line included, restarts the run), and for *)
(* Web ('too long for short-form pacing') if and only if its content has  *)
(* more than 15 lines.                                                    *)
C20_FormatFlags ==
    ReadabilityDone =>
        LET ls == ScriptLines(script)
        IN \A j \in 1..Cardinality(HeadingPositions(ls)) :
              /\ Flagged(report.TV, j) <=> HasLongRun(LinesOfScene(ls, j))
              /\ Flagged(report.Web, j) <=> (Len(LinesOfScene(ls, j)) > 15)

\* a scene flagged for TV, not for Web, whose run of 5 long lines starts
\* after a line of 100 characters
C20_Witness ==
    /\ ReadabilityDone
    /\ Len(report.scenes) = 1
    /\ Len(report.scenes[1].content) = 6
    /\ Len(report.scenes[1].content[1]) = 100
    /\ Flagged(report.TV, 1)
    /\ ~Flagged(report.Web, 1)
----------------------------------------------------------------------------
(* main.py: the functions ScriptAnalyzerCLI calls, run to completion *)

\* format_script(text): the for loop over text.splitlines(), then the join
RECURSIVE format_script_loop(_)
format_script_loop(l) ==
    IF l.i = Len(l.lines) THEN l ELSE format_script_loop(format_script_body(l))

format_script(text) == format_script_report(format_script_loop(format_script_init(text)))

RECURSIVE scene_structure_validator_loop(_)
scene_structure_validator_loop(l) ==
    IF l.i = Len(l.lines) THEN l
    ELSE scene_structure_validator_loop(scene_structure_validator_body(l))

scene_structure_validator(text) ==
    scene_structure_validator_report(
        scene_structure_validator_loop(scene_structure_validator_init(text)))

RECURSIVE character_tracking_loop(_)
character_tracking_loop(l) ==
    IF l.i = Len(l.lines) THEN l
    ELSE character_tracking_loop(character_tracking_body(l))

character_tracking(text) ==
    character_tracking_report(character_tracking_loop(character_tracking_init(text)))

RECURSIVE character_development_validator_loop(_)
character_development_validator_loop(l) ==
    IF l.i = Len(l.lines) THEN l
    ELSE character_development_validator_loop(character_development_validator_body(l))

character_development_validator(text) ==
    character_development_validator_report(
        character_development_validator_loop(character_development_validator_init(text)))

RECURSIVE character_speaking_stats_loop(_)
character_speaking_stats_loop(l) ==
    IF l.i = Len(l.lines) THEN l
    ELSE character_speaking_stats_loop(character_speaking_stats_body(l))

character_speaking_stats(text) ==
    character_speaking_stats_report(
        character_speaking_stats_loop(character_speaking_stats_init(text)))

\* the segmentation loop of the pacing and readability analyses
RECURSIVE segment_loop(_)
segment_loop(l) ==
    IF l.i = Len(l.lines) THEN l ELSE segment_loop(segment_body(l))

readability_analysis(text) ==
    readability_analysis_report(segment_loop(segment_init(text)))

\* "for line in scene['content']"
RECURSIVE pacing_content_loop(_)
pacing_content_loop(l) ==
    IF l.j = Len(l.scenes[l.s + 1].content) THEN l
    ELSE pacing_content_loop(pacing_content_body(l))

\* "for scene in scenes"
RECURSIVE pacing_scene_loop(_)
pacing_scene_loop(l) ==
    IF l.s = Len(l.scenes) THEN l
    ELSE pacing_scene_loop(pacing_scene_end(pacing_content_loop(pacing_scene_begin(l))))

scene_pacing_and_distribution(text) ==
    scene_pacing_and_distribution_report(
        pacing_scene_loop(pacing_analysis_init(segment_loop(segment_init(text)))))

\* ScriptAnalyzerCLI.extract_title
extract_title(text) ==
    LET ls == SplitLinesPy(text)
        idx == {k \in 1..Len(ls) : Strip(ls[k]) # <<>>}
    IN IF idx = {} THEN <<"Untitled Script">>
       ELSE Strip(ls[CHOOSE k \in idx : \A m \in idx : k <= m])

\* self.reports = {} after construction
NoReports == <<>>

\* the dict run_analysis builds from a script; the clock reading that follows
\* the title in its first section is not kept
run_analysis_reports(text) ==
    <<[k |-> "Title & Date", v |-> extract_title(text)],
      [k |-> "Structure", v |-> scene_structure_validator(text)],
      [k |-> "Characters", v |-> character_tracking(text)],
      [k |-> "Development", v |-> character_development_validator(text)],
      [k |-> "Pacing", v |-> scene_pacing_and_distribution(text)],
      [k |-> "Readability", v |-> readability_analysis(text)],
      [k |-> "Speaking", v |-> character_speaking_stats(text)]>>
----------------------------------------------------------------------------
(* main.py: ScriptAnalyzerCLI.  script is self.script, report is           *)
(* self.reports, fn is the method whose input() call is waiting, loc holds *)
(* raw_text, the choice last read by run, what was printed since the       *)
(* previous input() and what save_report wrote to the file in that time.   *)

CLIMaxLines == 2
CLIMaxEditLines == 1
CLIMaxScriptLines == 1

\* the character 0x1A, which a Windows console sends for Ctrl+Z
CtrlZ == <<"SUB">>
CaretD == <<"^","D">>

\* what the user can type at the main menu and at the reports menu
MenuInputs ==
    {<<"0">>, <<"1">>, <<"2">>, <<"3">>, <<"4">>, <<"5">>, <<"6">>, <<"7">>, CtrlZ}
ViewInputs == {<<"0">>, <<"1">>, <<"8">>, <<"9">>, <<"x">>}
\* the lines the user can type in enter_text and in edit_script
EnterInputs == {<<"H","i",".">>, CtrlZ}
EditInputs == {<<"H","i",".">>, CaretD}
\* file names, and what a file that can be read holds
FileNames == {<<"f">>}
FileTexts == {<<>>, <<"g","o">>}

\* str.isdigit() and int() on decimal digits
IsDigitString(s) == s # <<>> /\ \A k \in 1..Len(s) : IsDigitChar(s[k])
RECURSIVE IntOf(_)
IntOf(s) ==
    IF s = <<>> THEN 0
    ELSE 10 * IntOf(SubSeq(s, 1, Len(s) - 1))
         + (CHOOSE d \in 0..9 :
                <<"0","1","2","3","4","5","6","7","8","9">>[d + 1] = s[Len(s)])

CLILocals(raw_text, choice, printed, written) ==
    [raw_text |-> raw_text, choice |-> choice, printed |-> printed,
     written |-> written]

\* an input() call of the method is waiting for the user
Waiting(method) == fn = method /\ pc = "input"

\* the method reaches its next input() having printed this; "run" is the
\* loop of run at input("Enter your choice: ")
ToPrompt(method, choice, printed) ==
    /\ fn' = method
    /\ pc' = "input"
    /\ loc' = CLILocals(<<>>, choice, printed, NoReports)

InitCLI ==
    /\ script = <<>>
    /\ report = NoReports
    /\ fn = "run"
    /\ pc = "input"
    /\ loc = CLILocals(<<>>, <<>>, <<>>, NoReports)
    /\ hist = NoCall

\* run: one pass of the loop for the menu choice typed, up to the next input()
MenuChoice_editing_without_script(choice) ==
    /\ Waiting("run")
    /\ hist' = hist
    /\ IF choice = <<"1">>
       THEN ToPrompt("load_from_file", choice, <<>>) /\ UNCHANGED <<script, report>>
       ELSE IF choice = <<"2">>
       THEN ToPrompt("enter_text", choice, <<>>) /\ UNCHANGED <<script, report>>
       ELSE IF choice = <<"3">>
       THEN /\ Len(SplitLinesPy(script)) <= CLIMaxScriptLines
            /\ ToPrompt("edit_script", choice, <<"Current script:">>)
            /\ UNCHANGED <<script, report>>
       ELSE IF choice = <<"4">> /\ script # <<>>
       THEN /\ report' = run_analysis_reports(script)
            /\ ToPrompt("run", choice, <<"Running analysis...", "Analysis complete">>)
            /\ script' = script
       ELSE IF choice = <<"5">> /\ script # <<>>
       THEN /\ IF report = NoReports
               THEN ToPrompt("run", choice,
                             <<"No reports available. Please run analysis first.">>)
               ELSE ToPrompt("view_reports", choice, <<"REPORTS MENU">>)
            /\ UNCHANGED <<script, report>>
       ELSE IF choice = <<"6">> /\ script # <<>>
       THEN /\ IF report = NoReports
               THEN ToPrompt("run", choice, <<"No reports available to save">>)
               ELSE ToPrompt("save_report", choice, <<>>)
            /\ UNCHANGED <<script, report>>
       ELSE IF choice = <<"0">>
       THEN /\ pc' = "exited"
            /\ loc' = CLILocals(<<>>, choice, <<"Exiting...">>, NoReports)
            /\ UNCHANGED <<script, report, fn>>
       ELSE /\ ToPrompt("run", choice, <<"Invalid choice. Please try again.">>)
            /\ UNCHANGED <<script, report>>

MenuChoice(choice) ==
    /\ Waiting("run")
    /\ hist' = hist
    /\ IF choice = <<"1">>
       THEN ToPrompt("load_from_file", choice, <<>>) /\ UNCHANGED <<script, report>>
       ELSE IF choice = <<"2">>
       THEN ToPrompt("enter_text", choice, <<>>) /\ UNCHANGED <<script, report>>
       ELSE IF choice = <<"3">> /\ script # <<>>
       THEN /\ Len(SplitLinesPy(script)) <= CLIMaxScriptLines
            /\ ToPrompt("edit_script", choice, <<"Current script:">>)
            /\ UNCHANGED <<script, report>>
       ELSE IF choice = <<"4">> /\ script # <<>>
       THEN /\ report' = run_analysis_reports(script)
            /\ ToPrompt("run", choice, <<"Running analysis...", "Analysis complete">>)
            /\ script' = script
       ELSE IF choice = <<"5">> /\ script # <<>>
       THEN /\ IF report = NoReports
               THEN ToPrompt("run", choice,
                             <<"No reports available. Please run analysis first.">>)
               ELSE ToPrompt("view_reports", choice, <<"REPORTS MENU">>)
            /\ UNCHANGED <<script, report>>
       ELSE IF choice = <<"6">> /\ script # <<>>
       THEN /\ IF report = NoReports
               THEN ToPrompt("run", choice, <<"No reports available to save">>)
               ELSE ToPrompt("save_report", choice, <<>>)
            /\ UNCHANGED <<script, report>>
       ELSE IF choice = <<"0">>
       THEN /\ pc' = "exited"
            /\ loc' = CLILocals(<<>>, choice, <<"Exiting...">>, NoReports)
            /\ UNCHANGED <<script, report, fn>>
       ELSE /\ ToPrompt("run", choice, <<"Invalid choice. Please try again.">>)
            /\ UNCHANGED <<script, report>>

\* input() raises EOFError in a method that does not catch it
UncaughtEOF ==
    /\ \E method \in {"run", "load_from_file", "view_reports", "save_report"} :
          Waiting(method)
    /\ pc' = "raised"
    /\ UNCHANGED <<script, fn, loc, report, hist>>

\* load_from_file with a file that can be read
LoadFile(filepath, raw_text) ==
    /\ Waiting("load_from_file")
    /\ script' = format_script(raw_text)
    /\ ToPrompt("run", loc.choice, <<"Loaded script from">>)
    /\ UNCHANGED <<report, hist>>

\* load_from_file when open or read raises
LoadFails(filepath) ==
    /\ Waiting("load_from_file")
    /\ ToPrompt("run", loc.choice, <<"Error loading file:">>)
    /\ UNCHANGED <<script, report, hist>>

\* enter_text: input() returns a line
EnterLine(line) ==
    /\ Waiting("enter_text")
    /\ Len(loc.raw_text) < CLIMaxLines
    /\ loc' = [loc EXCEPT !.raw_text = Append(@, line), !.printed = <<>>]
    /\ UNCHANGED <<script, fn, pc, report, hist>>

\* enter_text: input() raises EOFError
EnterEOF ==
    /\ Waiting("enter_text")
    /\ script' = format_script(JoinLines(loc.raw_text))
    /\ ToPrompt("run", loc.choice, <<"Script received and formatted">>)
    /\ UNCHANGED <<report, hist>>

\* what edit_script does once its input loop has ended
edit_script_finish ==
    /\ script' = <<"\n">> \o script \o format_script(JoinLines(loc.raw_text))
    /\ ToPrompt("run", loc.choice, <<"Script updated">>)
    /\ UNCHANGED <<report, hist>>

\* edit_script: input() returns a line
EditLine(line) ==
    /\ Waiting("edit_script")
    /\ IF Strip(line) = CaretD
       THEN edit_script_finish
       ELSE /\ Len(loc.raw_text) < CLIMaxEditLines
            /\ loc' = [loc EXCEPT !.raw_text = Append(@, line), !.printed = <<>>]
            /\ UNCHANGED <<script, fn, pc, report, hist>>

\* edit_script: input() raises EOFError
EditEOF == Waiting("edit_script") /\ edit_script_finish

\* view_reports: the choice typed at the reports menu
ViewChoice(choice) ==
    /\ Waiting("view_reports")
    /\ ToPrompt("run", loc.choice,
                IF ~IsDigitString(choice) THEN <<>>
                ELSE IF 1 <= IntOf(choice) /\ IntOf(choice) <= Len(report)
                THEN <<report[IntOf(choice)].k, "Report:">>
                ELSE IF IntOf(choice) = Len(report) + 1
                THEN <<"Full Report:">>
                ELSE <<>>)
    /\ UNCHANGED <<script, report, hist>>

\* save_report: the file is written, or open or write raises
SaveReport(filename, saved) ==
    /\ Waiting("save_report")
    /\ fn' = "run"
    /\ pc' = "input"
    /\ loc' = IF saved
              THEN CLILocals(<<>>, loc.choice, <<"Report saved to">>, report)
              ELSE CLILocals(<<>>, loc.choice, <<"Error saving file:">>, NoReports)
    /\ UNCHANGED <<script, report, hist>>

NextCLI ==
    \/ \E choice \in MenuInputs : MenuChoice(choice)
    \/ UncaughtEOF
    \/ \E filepath \in FileNames, raw_text \in FileTexts : LoadFile(filepath, raw_text)
    \/ \E filepath \in FileNames : LoadFails(filepath)
    \/ \E line \in EnterInputs : EnterLine(line)
    \/ EnterEOF
    \/ \E line \in EditInputs : EditLine(line)
    \/ EditEOF
    \/ \E choice \in ViewInputs : ViewChoice(choice)
    \/ \E filename \in FileNames, saved \in BOOLEAN : SaveReport(filename, saved)

SpecCLI == InitCLI /\ [][NextCLI]_vars

----------------------------------------------------------------------------
(* The menu of run.                                                        *)

InvalidChoice == <<"Invalid choice. Please try again.">>

\* C21: whenever reports exist, menu choices '5' and '6' are served (the
\* reports menu opens, the report is saved) whether or not a script is
\* loaded; neither is answered with 'Invalid choice'.
C21_ReportsServedWithoutScript ==
    (loc.choice \in {<<"5">>, <<"6">>} /\ report # NoReports)
        => loc.printed # InvalidChoice

\* C22: in enter_text an input line holding the Ctrl+Z character ends the
\* entry: no input() of enter_text is waiting once that line has been read.
C22_CtrlZEndsEntry ==
    Waiting("enter_text") =>
        \A k \in 1..Len(loc.raw_text) : loc.raw_text[k] # CtrlZ

\* C23: edit_script appends: the script's lines afterwards are the previous
\* script's lines followed by the formatted lines of the new text.
C23_EditAppends ==
    [][(Waiting("edit_script") /\ fn' = "run") =>
          SplitLinesPy(script') =
              SplitLinesPy(script)
                  \o SplitLinesPy(format_script(JoinLines(loc.raw_text)))]_vars

\* C24: from every state of the menu, choice '0' prints 'Exiting...' and
\* ends the loop of run and no other choice ends it; choices '3' and '4'
\* made while no script is loaded are answered with 'Invalid choice. Please
\* try again.' and leave script and reports as they were.
C24_OnlyZeroExits ==
    [][(Waiting("run") /\ pc' # "raised") =>
          /\ (pc' = "exited") <=> (loc'.choice = <<"0">>)
          /\ pc' = "exited" => loc'.printed = <<"Exiting...">>
          /\ (loc'.choice \in {<<"3">>, <<"4">>} /\ script = <<>>) =>
                /\ Waiting("run")'
                /\ loc'.printed = InvalidChoice
                /\ script' = script
                /\ report' = report]_vars

\* the loop was left by choice '0' with a script loaded and reports present
C24_Witness ==
    /\ pc = "exited"
    /\ loc.printed = <<"Exiting...">>
    /\ script # <<>>
    /\ report # NoReports

\* C27: whenever self.reports is non-empty, its sections were computed from
\* the script now held in self.script.
C27_ReportsOfCurrentScript ==
    report # NoReports => report = run_analysis_reports(script)
----------------------------------------------------------------------------
(* Header warnings of scene_structure_validator.  Lines are numbered as    *)
(* the function numbers them, over script.strip().split('\n').             *)

HeaderMessage == "transition not followed by a scene heading"

\* the lines that are transitions with no scene heading on the next line
DanglingTransitions(ls) ==
    {n \in 1..Len(ls) :
        /\ ~IsBlank(ls[n])
        /\ ~is_scene_heading(ls[n])
        /\ is_transition(ls[n])
        /\ (n + 1 > Len(ls) \/ ~is_scene_heading(ls[n + 1]))}

\* C25: scene_structure_validator reports 'Line n: transition not followed
\* by a scene heading' exactly for the lines n that are non-blank, not a
\* scene heading, a transition, and whose next line (blank lines not
\* skipped) is missing or not a scene heading; 'No header errors' is
\* reported exactly when there is no such line; a warning does not stop the
\* scan: every line is visited and every heading counted.
C25_HeaderWarnings ==
    StructureDone =>
        LET ls == ScriptLines(script)
            warned == {loc.header_issues[m].n : m \in 1..Len(loc.header_issues)}
        IN /\ warned = DanglingTransitions(ls)
           /\ Len(loc.header_issues) = Cardinality(warned)
           /\ \A m \in 1..Len(loc.header_issues) :
                 loc.header_issues[m].msg = HeaderMessage
           /\ (report.HeaderReports = <<[n |-> 0, msg |-> "No header errors"]>>)
                 <=> (DanglingTransitions(ls) = {})
           /\ DanglingTransitions(ls) # {}
                 => report.HeaderReports = loc.header_issues
           /\ loc.i = Len(ls)
           /\ loc.scene_count = Cardinality(HeadingPositions(ls))

\* a warning on a line before the last, and a heading counted after it
C25_Witness ==
    /\ StructureDone
    /\ loc.header_issues # <<>>
    /\ loc.header_issues[1].n < Len(ScriptLines(script))
    /\ loc.scene_count >= 1
    /\ \E n \in HeadingPositions(ScriptLines(script)) : n > loc.header_issues[1].n
----------------------------------------------------------------------------
(* Coverage of the six predicates. *)

\* the trimmed line ends in '.', '?' or '!'
EndsSentence == LineEndsIn(".") \/ LineEndsIn("?") \/ LineEndsIn("!")

====
